---- MODULE Spec2Model ----
(* A model of src/agws.js: AGStorage (a record store over a Web Storage      *)
(* object) and AGTreeStorage (the same store plus a marker key).             *)
(*                                                                           *)
(* JavaScript values are pairs <<tag, payload>>:                             *)
(*   <<"undefined", 0>>  <<"null", 0>>  <<"NaN", 0>>  <<"boolean", b>>       *)
(*   <<"number", n>>     <<"string", s>>                                     *)
(*   <<"array", <<v1, ..., vn>> >>                                           *)
(*   <<"object", << <<k1, v1>>, ..., <<kn, vn>> >> >>  (own properties in    *)
(*                                                     enumeration order)   *)
(* The backend (a Storage object) maps string keys to strings; the strings   *)
(* are TLA+ strings, produced by JSONstringify and read back by JSONparse.   *)
EXTENDS Integers, Sequences, FiniteSets, TLC

(***************************************************************************)
(* Bounds of the model.                                                    *)
(***************************************************************************)
\* createRecord is called at most MaxCreates times in a behaviour
MaxCreates == 3
\* a createRecord whose backend write fails is called only while the counter
\* reads below MaxCounter
MaxCounter == 2

(***************************************************************************)
(* JavaScript values.                                                      *)
(***************************************************************************)
\* a local variable of the source: value is computed once and body is the
\* code that follows the assignment
Local(value, body(_)) == body(value)

Undefined == <<"undefined", 0>>
Null == <<"null", 0>>
NaN == <<"NaN", 0>>
False == <<"boolean", FALSE>>
True == <<"boolean", TRUE>>
Num(n) == <<"number", n>>
Str(s) == <<"string", s>>
Arr(elems) == <<"array", elems>>
Obj(props) == <<"object", props>>
EmptyArray == Arr(<<>>)

\* ToBoolean: the test of `x ? a : b`, `x || y`, `if (x)`
Truthy(v) ==
    CASE v[1] = "undefined" -> FALSE
      [] v[1] = "null" -> FALSE
      [] v[1] = "NaN" -> FALSE
      [] v[1] = "boolean" -> v[2]
      [] v[1] = "number" -> v[2] # 0
      [] v[1] = "string" -> v[2] # ""
      [] OTHER -> TRUE

\* x || y
Or(x, y) == IF Truthy(x) THEN x ELSE y

Char(s, i) == SubSeq(s, i, i)

Digits == <<"0", "1", "2", "3", "4", "5", "6", "7", "8", "9">>

IsDigit(c) == \E d \in 1..10 : Digits[d] = c

DigitValue(c) == (CHOOSE d \in 1..10 : Digits[d] = c) - 1

\* the position after the run of decimal digits of s that starts at i
RECURSIVE DigitsEnd(_, _)
DigitsEnd(s, i) ==
    IF i <= Len(s) /\ IsDigit(Char(s, i)) THEN DigitsEnd(s, i + 1) ELSE i

\* the value of the decimal digits s[i..j-1]
RECURSIVE DigitsValue(_, _, _)
DigitsValue(s, i, j) ==
    IF j <= i THEN 0
    ELSE 10 * DigitsValue(s, i, j - 1) + DigitValue(Char(s, j - 1))

\* Array.prototype.join(","), String(array)
RECURSIVE Join(_, _)
Join(strs, sep) ==
    IF strs = <<>> THEN ""
    ELSE IF Len(strs) = 1 THEN strs[1]
    ELSE strs[1] \o sep \o Join(Tail(strs), sep)

\* ToString: the conversion of `a + "-" + b`, String(x), x.toString()
RECURSIVE ToStr(_)
ToStr(v) ==
    CASE v[1] = "undefined" -> "undefined"
      [] v[1] = "null" -> "null"
      [] v[1] = "NaN" -> "NaN"
      [] v[1] = "boolean" -> IF v[2] THEN "true" ELSE "false"
      [] v[1] = "number" -> ToString(v[2])
      [] v[1] = "string" -> v[2]
      [] v[1] = "array" ->
           Join([i \in 1..Len(v[2]) |->
                   IF v[2][i][1] \in {"undefined", "null"} THEN ""
                   ELSE ToStr(v[2][i])], ",")
      [] OTHER -> "[object Object]"

\* parseInt(v, 10) for the non-negative decimal numerals the store handles
ParseInt(v) ==
    LET s == ToStr(v)
        j == DigitsEnd(s, 1)
    IN  IF j = 1 THEN NaN ELSE Num(DigitsValue(s, 1, j))

\* x + 1 on a number
Plus1(v) == IF v[1] = "number" THEN Num(v[2] + 1) ELSE NaN

(***************************************************************************)
(* Objects: own properties in enumeration order.                           *)
(***************************************************************************)
Keys(o) == [i \in 1..Len(o[2]) |-> o[2][i][1]]

\* o.hasOwnProperty(k); a primitive (false, a number) has no own property
HasOwnProperty(o, k) ==
    /\ o[1] = "object"
    /\ \E i \in 1..Len(o[2]) : o[2][i][1] = k

\* o[k], o.k
Get(o, k) ==
    IF HasOwnProperty(o, k)
    THEN o[2][CHOOSE i \in 1..Len(o[2]) : o[2][i][1] = k][2]
    ELSE Undefined

\* o.k = v: an existing property keeps its place, a new one goes last
Set(o, k, v) ==
    IF HasOwnProperty(o, k)
    THEN Obj([i \in 1..Len(o[2]) |->
                 IF o[2][i][1] = k THEN <<k, v>> ELSE o[2][i]])
    ELSE Obj(Append(o[2], <<k, v>>))

(***************************************************************************)
(* JSON.stringify and JSON.parse.                                          *)
(***************************************************************************)
Quote == "\""

\* the properties JSON.stringify writes: those whose value is not undefined
RECURSIVE Defined(_)
Defined(props) ==
    IF props = <<>> THEN <<>>
    ELSE IF props[1][2][1] = "undefined" THEN Defined(Tail(props))
    ELSE <<props[1]>> \o Defined(Tail(props))

RECURSIVE JSONstringify(_)
JSONstringify(v) ==
    CASE v[1] \in {"null", "NaN"} -> "null"
      [] v[1] = "boolean" -> IF v[2] THEN "true" ELSE "false"
      [] v[1] = "number" -> ToString(v[2])
      [] v[1] = "string" -> Quote \o v[2] \o Quote
      [] v[1] = "array" ->
           "[" \o Join([i \in 1..Len(v[2]) |->
                          IF v[2][i][1] = "undefined" THEN "null"
                          ELSE JSONstringify(v[2][i])], ",") \o "]"
      [] v[1] = "object" ->
           LET ps == Defined(v[2])
           IN  "{" \o Join([i \in 1..Len(ps) |->
                              Quote \o ps[i][1] \o Quote \o ":"
                                \o JSONstringify(ps[i][2])], ",") \o "}"
      [] OTHER -> "undefined"

\* the position of the first double quote of s at or after i
RECURSIVE QuoteAt(_, _)
QuoteAt(s, i) ==
    IF i > Len(s) \/ Char(s, i) = Quote THEN i ELSE QuoteAt(s, i + 1)

\* JSON.parse reads one value of s starting at position i and yields
\* <<value, position after it>>
RECURSIVE ParseValue(_, _), ParseElements(_, _, _), ParseMembers(_, _, _)
ParseValue(s, i) ==
    LET c == Char(s, i)
    IN  CASE c = Quote ->
               LET j == QuoteAt(s, i + 1)
               IN  <<Str(SubSeq(s, i + 1, j - 1)), j + 1>>
          [] c = "[" ->
               IF Char(s, i + 1) = "]" THEN <<EmptyArray, i + 2>>
               ELSE ParseElements(s, i + 1, <<>>)
          [] c = "{" ->
               IF Char(s, i + 1) = "}" THEN <<Obj(<<>>), i + 2>>
               ELSE ParseMembers(s, i + 1, <<>>)
          [] c = "t" -> <<True, i + 4>>
          [] c = "f" -> <<False, i + 5>>
          [] c = "n" -> <<Null, i + 4>>
          [] OTHER ->
               LET j == DigitsEnd(s, i)
               IN  <<Num(DigitsValue(s, i, j)), j>>

ParseElements(s, i, acc) ==
    LET e == ParseValue(s, i)
        acc2 == Append(acc, e[1])
    IN  IF Char(s, e[2]) = "," THEN ParseElements(s, e[2] + 1, acc2)
        ELSE <<Arr(acc2), e[2] + 1>>

ParseMembers(s, i, acc) ==
    LET k == ParseValue(s, i)
        e == ParseValue(s, k[2] + 1)
        acc2 == Append(acc, <<k[1][2], e[1]>>)
    IN  IF Char(s, e[2]) = "," THEN ParseMembers(s, e[2] + 1, acc2)
        ELSE <<Obj(acc2), e[2] + 1>>

JSONparse(s) == ParseValue(s, 1)[1]


(***************************************************************************)
(* The backend and the execution of one call.                              *)
(*                                                                         *)
(* A Storage object is a function from its keys to strings.  A call runs   *)
(* on a machine m: m.st the Storage object, m.ev the Storage calls made so *)
(* far (<<"getItem", key>>, <<"setItem", key>>, <<"removeItem", key>>),    *)
(* m.seen the Storage contents each dataChanged invocation found,          *)
(* m.left the number of setItem calls the backend still accepts (NoLimit:  *)
(* any number), m.thrown whether an exception is propagating.  A function  *)
(* of the source that returns a value yields [m |-> machine, ret |-> v].   *)
(***************************************************************************)
EmptyStorage == [k \in {} |-> ""]

NoLimit == 0 - 1

Machine(st, left) ==
    [st |-> st, ev |-> <<>>, seen |-> <<>>, left |-> left, thrown |-> FALSE]

Throw(m) == [m EXCEPT !.thrown = TRUE]

\* Storage.setItem(key, value), which throws when the quota is exceeded
StorageSetItem(m, key, value) ==
    IF m.thrown THEN m
    ELSE IF m.left = 0
    THEN Throw([m EXCEPT !.ev = Append(@, <<"setItem", key>>)])
    ELSE [m EXCEPT
            !.st = [k \in DOMAIN m.st \cup {key} |->
                      IF k = key THEN value ELSE m.st[k]],
            !.ev = Append(@, <<"setItem", key>>),
            !.left = IF @ > 0 THEN @ - 1 ELSE @]

\* Storage.getItem(key): the string, or null for a missing key
StorageGetItem(m, key) ==
    [m |-> IF m.thrown THEN m
           ELSE [m EXCEPT !.ev = Append(@, <<"getItem", key>>)],
     ret |-> IF key \in DOMAIN m.st THEN Str(m.st[key]) ELSE Null]

\* Storage.removeItem(key)
StorageRemoveItem(m, key) ==
    IF m.thrown THEN m
    ELSE [m EXCEPT
            !.st = [k \in DOMAIN m.st \ {key} |-> m.st[k]],
            !.ev = Append(@, <<"removeItem", key>>)]

(***************************************************************************)
(* AGStorage.  self is the accessor object: self.id the storageId,         *)
(* self.dataChanged whether a dataChanged callback was supplied; the       *)
(* Storage object it is bound to is the machine's m.st.                    *)
(***************************************************************************)
AGStorage(storageId, dataChanged) ==
    [id |-> storageId, dataChanged |-> dataChanged]

_setItem(m, self, key, value) ==
    StorageSetItem(m, key, JSONstringify(value))

_getItem(m, self, key) ==
    Local(StorageGetItem(m, key),
      LAMBDA value :
        [m |-> value.m,
         ret |-> IF Truthy(value.ret) THEN JSONparse(value.ret[2]) ELSE Null])

\* _removeItem leaving the key in place
_removeItemNot(m, self, key) == m

_removeItem(m, self, key) == StorageRemoveItem(m, key)

_getRecordCounterKey(self) == self.id \o "-counter"

_getRecordCounterValue(m, self) ==
    Local(_getItem(m, self, _getRecordCounterKey(self)),
      LAMBDA counter :
        [m |-> counter.m,
         ret |-> IF Truthy(counter.ret) THEN ParseInt(counter.ret)
                 ELSE Num(0)])

_incRecordCounterValue(m, self) ==
    Local(_getRecordCounterValue(m, self),
      LAMBDA old :
        [m |-> _setItem(old.m, self, _getRecordCounterKey(self),
                        Plus1(old.ret)),
         ret |-> Plus1(old.ret)])

\* getAllRecordIds storing the empty index it falls back to
getAllRecordIdsStoring(m, self) ==
    Local(_getItem(m, self, self.id),
      LAMBDA allRecordIds :
        IF Truthy(allRecordIds.ret) THEN allRecordIds
        ELSE [m |-> _setItem(allRecordIds.m, self, self.id, EmptyArray),
              ret |-> EmptyArray])

getAllRecordIds(m, self) ==
    Local(_getItem(m, self, self.id),
      LAMBDA allRecordIds :
        [m |-> allRecordIds.m, ret |-> Or(allRecordIds.ret, EmptyArray)])

\* allRecordIds.push(recordId) needs an array
_addRecordId(m, self, recordId) ==
    Local(getAllRecordIds(m, self),
      LAMBDA allRecordIds :
        IF allRecordIds.ret[1] # "array" THEN Throw(allRecordIds.m)
        ELSE _setItem(allRecordIds.m, self, self.id,
                      Arr(Append(allRecordIds.ret[2], recordId))))

\* a.indexOf(v) as a position 1..Len, 0 for -1
IndexOf(elems, v) ==
    IF \E i \in 1..Len(elems) : elems[i] = v
    THEN CHOOSE i \in 1..Len(elems) :
            /\ elems[i] = v
            /\ \A j \in 1..(i - 1) : elems[j] # v
    ELSE 0

\* a.splice(i, 1) at position i of 1..Len
Splice1(elems, i) == SubSeq(elems, 1, i - 1) \o SubSeq(elems, i + 1, Len(elems))

_removeRecordId(m, self, recordId) ==
    Local(getAllRecordIds(m, self),
      LAMBDA allRecordIds :
        IF allRecordIds.ret[1] # "array" THEN Throw(allRecordIds.m)
        ELSE LET recordIndex == IndexOf(allRecordIds.ret[2], recordId)
             IN  IF recordIndex > 0
                 THEN _setItem(allRecordIds.m, self, self.id,
                               Arr(Splice1(allRecordIds.ret[2], recordIndex)))
                 ELSE allRecordIds.m)

_getRecordKeyById(self, recordId) == self.id \o "-" \o ToStr(recordId)

\* if (this.dataChanged) { this.dataChanged(); }
DataChanged(m, self) ==
    IF m.thrown \/ ~self.dataChanged THEN m
    ELSE [m EXCEPT !.seen = Append(@, m.st)]

\* createRecord announcing the change before the index is written
createRecordEarly(m, self, record) ==
    Local(_incRecordCounterValue(m, self),
      LAMBDA counter :
        Local(Set(JSONparse(JSONstringify(record)), "id",
                  Str(ToStr(counter.ret))),
          LAMBDA newRecord :
            [m |-> _addRecordId(
                     DataChanged(
                       _setItem(counter.m, self,
                                _getRecordKeyById(self, Get(newRecord, "id")),
                                newRecord),
                       self),
                     self, Get(newRecord, "id")),
             ret |-> newRecord]))

createRecord(m, self, record) ==
    Local(_incRecordCounterValue(m, self),
      LAMBDA counter :
        Local(Set(JSONparse(JSONstringify(record)), "id",
                  Str(ToStr(counter.ret))),
          LAMBDA newRecord :
            [m |-> DataChanged(
                     _addRecordId(
                       _setItem(counter.m, self,
                                _getRecordKeyById(self, Get(newRecord, "id")),
                                newRecord),
                       self, Get(newRecord, "id")),
                     self),
             ret |-> newRecord]))

updateRecord(m, self, record) ==
    LET m1 == _setItem(m, self, _getRecordKeyById(self, Get(record, "id")),
                       record)
    IN  [m |-> DataChanged(m1, self), ret |-> Undefined]

getRecordById(m, self, recordId) ==
    Local(_getItem(m, self, _getRecordKeyById(self, recordId)),
      LAMBDA record : [m |-> record.m, ret |-> Or(record.ret, False)])

\* a[i] for a JavaScript index i (0-based)
At(a, i) ==
    IF a[1] = "array" /\ i >= 0 /\ i < Len(a[2]) THEN a[2][i + 1]
    ELSE Undefined

getRecordByIndex(m, self, recordIndex) ==
    Local(getAllRecordIds(m, self),
      LAMBDA allRecordIds :
        Local(_getItem(allRecordIds.m, self,
                       _getRecordKeyById(self, At(allRecordIds.ret,
                                                  recordIndex))),
          LAMBDA record : [m |-> record.m, ret |-> Or(record.ret, False)]))

deleteRecordById(m, self, recordId) ==
    LET m1 == _removeItem(m, self, _getRecordKeyById(self, recordId))
        m2 == _removeRecordId(m1, self, recordId)
    IN  [m |-> DataChanged(m2, self), ret |-> Undefined]

(***************************************************************************)
(* Iteration.  A callback is a descriptor <<name, ...>> run by Invoke; acc *)
(* is the variable of the enclosing function that the callback assigns     *)
(* (allRecords, foundRecordIndex).                                         *)
(***************************************************************************)
\* text.match(value) for a string value without regular-expression
\* metacharacters: value occurs somewhere in text
Match(text, value) ==
    \E i \in 1..(Len(text) - Len(value) + 1) :
        SubSeq(text, i, i + Len(value) - 1) = value

\* the test of the callback of find
FindTest(record, property, value) ==
    /\ HasOwnProperty(record, property)
    /\ Match(JSONstringify(Get(record, property)), value)

\* the functions callers pass to findBy:
\*   <<"fieldMatches", property, value>>
\*       function (r) { return r && r[property] !== undefined
\*                        && JSON.stringify(r[property]).indexOf(value) > -1; }
\*   <<"indexIs", k>>   function (r, i) { return i === k; }
\*   <<"missing">>      function (r) { return r === false; }
Fn(fn, record, recordIndex) ==
    CASE fn[1] = "fieldMatches" ->
           IF /\ Truthy(record)
              /\ Get(record, fn[2])[1] # "undefined"
              /\ Match(JSONstringify(Get(record, fn[2])), fn[3])
           THEN True ELSE False
      [] fn[1] = "indexIs" -> IF recordIndex = fn[2] THEN True ELSE False
      [] OTHER -> IF record = False THEN True ELSE False

\* find's callback forgetting to return true on a match
FindCallbackNoStop(m, callback, acc, record, recordIndex) ==
    IF FindTest(record, callback[2], callback[3])
    THEN [m |-> m, acc |-> recordIndex, ret |-> Undefined]
    ELSE [m |-> m, acc |-> acc, ret |-> Undefined]

\* the callback of find (src lines 330-336)
FindCallback(m, callback, acc, record, recordIndex) ==
    IF FindTest(record, callback[2], callback[3])
    THEN [m |-> m, acc |-> recordIndex, ret |-> True]
    ELSE [m |-> m, acc |-> acc, ret |-> Undefined]

\* the callback of findBy
FindByCallback(m, callback, acc, record, recordIndex) ==
    IF Truthy(Fn(callback[2], record, recordIndex))
    THEN [m |-> m, acc |-> recordIndex, ret |-> True]
    ELSE [m |-> m, acc |-> acc, ret |-> Undefined]

\* getAllRecords' callback collecting only the records found
GetAllRecordsCallbackSkipMissing(m, acc, record) ==
    [m |-> m, acc |-> IF Truthy(record) THEN Append(acc, record) ELSE acc,
     ret |-> Undefined]

\* the callback of getAllRecords
GetAllRecordsCallback(m, acc, record) ==
    [m |-> m, acc |-> Append(acc, record), ret |-> Undefined]

\* Object.keys(v); a primitive has no own enumerable property
ObjectKeys(v) == IF v[1] = "object" THEN Keys(v) ELSE <<>>

\* the values of record at the keys it owns, in the order of columnKeys
RECURSIVE RowData(_, _)
RowData(record, columnKeys) ==
    IF columnKeys = <<>> THEN <<>>
    ELSE IF HasOwnProperty(record, columnKeys[1])
    THEN <<Get(record, columnKeys[1])>> \o RowData(record, Tail(columnKeys))
    ELSE RowData(record, Tail(columnKeys))

\* columnKeys is an array of property names or Undefined
getDhtmlxGridRowByRecordId(m, self, recordId, columnKeys) ==
    Local(getRecordById(m, self, recordId),
      LAMBDA record :
        LET keys == IF columnKeys[1] = "undefined" THEN ObjectKeys(record.ret)
                    ELSE [i \in 1..Len(columnKeys[2]) |-> columnKeys[2][i][2]]
        IN  [m |-> record.m,
             ret |-> Obj(<< <<"id", Get(record.ret, "id")>>,
                            <<"data", Arr(RowData(record.ret, keys))>> >>)])

\* getDhtmlxGrid's callback making rows only for the records found
GetDhtmlxGridCallbackSkipMissing(m, self, callback, acc, record) ==
    IF Truthy(record)
    THEN Local(getDhtmlxGridRowByRecordId(m, self, Get(record, "id"),
                                          callback[2]),
           LAMBDA row :
             [m |-> row.m, acc |-> Append(acc, row.ret), ret |-> Undefined])
    ELSE [m |-> m, acc |-> acc, ret |-> Undefined]

\* the callback of getDhtmlxGrid
GetDhtmlxGridCallback(m, self, callback, acc, record) ==
    Local(getDhtmlxGridRowByRecordId(m, self, Get(record, "id"), callback[2]),
      LAMBDA row :
        [m |-> row.m, acc |-> Append(acc, row.ret), ret |-> Undefined])

\* what a caller's callback does to the store it is bound to: nothing, or
\* one mutating call
Effect(m, self, effect) ==
    CASE effect[1] = "createRecord" -> createRecord(m, self, effect[2])
      [] effect[1] = "updateRecord" -> updateRecord(m, self, effect[2])
      [] effect[1] = "deleteRecordById" ->
           deleteRecordById(m, self, effect[2])
      [] OTHER -> [m |-> m, ret |-> Undefined]

\* a caller's callback <<"user", stop, effect>>: it notes its arguments,
\* makes its call on the store and returns true at position stop
UserCallback(m, self, callback, acc, record, recordIndex) ==
    Local(Effect(m, self, callback[3]),
      LAMBDA made :
        [m |-> made.m,
         acc |-> Append(acc, [record |-> record, recordIndex |-> recordIndex,
                              made |-> made.ret]),
         ret |-> IF recordIndex = callback[2] THEN True ELSE Undefined])

\* callback.bind(this)(record, recordIndex)
Invoke(m, self, callback, acc, record, recordIndex) ==
    CASE callback[1] = "getAllRecords" -> GetAllRecordsCallback(m, acc, record)
      [] callback[1] = "user" ->
           UserCallback(m, self, callback, acc, record, recordIndex)
      [] callback[1] = "find" ->
           FindCallback(m, callback, acc, record, recordIndex)
      [] callback[1] = "findBy" ->
           FindByCallback(m, callback, acc, record, recordIndex)
      [] OTHER -> GetDhtmlxGridCallback(m, self, callback, acc, record)

\* a.length
Length(a) == IF a[1] = "array" THEN Len(a[2]) ELSE 0 - 1

\* the for loop of forEachRecord, from recordIndex on
RECURSIVE ForLoop(_, _, _, _, _, _)
ForLoop(m, self, callback, acc, allRecordIds, recordIndex) ==
    IF m.thrown \/ ~(recordIndex < Length(allRecordIds))
    THEN [m |-> m, acc |-> acc]
    ELSE Local(getRecordById(m, self, At(allRecordIds, recordIndex)),
           LAMBDA record :
             Local(Invoke(record.m, self, callback, acc, record.ret,
                          recordIndex),
               LAMBDA r :
                 IF Truthy(r.ret) THEN [m |-> r.m, acc |-> r.acc]
                 ELSE ForLoop(r.m, self, callback, r.acc, allRecordIds,
                              recordIndex + 1)))

\* forEachRecord starting at the first position whatever startIndex is
forEachRecordFromZero(m, self, callback, acc, startIndex) ==
    Local(getAllRecordIds(m, self),
      LAMBDA allRecordIds :
        ForLoop(allRecordIds.m, self, callback, acc, allRecordIds.ret, 0))

\* startIndex is a number or Undefined; yields the machine and the
\* callback's variable after the loop
forEachRecord(m, self, callback, acc, startIndex) ==
    Local(getAllRecordIds(m, self),
      LAMBDA allRecordIds :
        ForLoop(allRecordIds.m, self, callback, acc, allRecordIds.ret,
                IF startIndex[1] # "undefined" THEN startIndex[2] ELSE 0))

getAllRecords(m, self) ==
    Local(forEachRecord(m, self, <<"getAllRecords">>, <<>>, Undefined),
      LAMBDA loop : [m |-> loop.m, ret |-> Arr(loop.acc)])

find(m, self, property, value, startIndex) ==
    Local(forEachRecord(m, self, <<"find", property, value>>, 0 - 1,
                        startIndex),
      LAMBDA loop : [m |-> loop.m, ret |-> Num(loop.acc)])

findBy(m, self, fn, startIndex) ==
    Local(forEachRecord(m, self, <<"findBy", fn>>, 0 - 1, startIndex),
      LAMBDA loop : [m |-> loop.m, ret |-> Num(loop.acc)])

getDhtmlxGrid(m, self, columnKeys) ==
    Local(forEachRecord(m, self, <<"getDhtmlxGrid", columnKeys>>, <<>>,
                        Undefined),
      LAMBDA loop :
        [m |-> loop.m,
         ret |-> Obj(<< <<"rows", Arr(loop.acc)>>,
                        <<"total_count", Num(Len(loop.acc))>> >>)])

(***************************************************************************)
(* AGTreeStorage: the constructor writes the marker, the prototype is      *)
(* AGStorage's.                                                            *)
(***************************************************************************)
AGTreeStorage(m, storageId, dataChanged) ==
    LET self == AGStorage(storageId, dataChanged)
    IN  [m |-> _setItem(m, self, self.id \o "-tree", True), ret |-> self]

(***************************************************************************)
(* The inputs of the model.                                                *)
(***************************************************************************)
StoreId == "s"

\* the accessor objects: one with a dataChanged callback, one without
Accessors == {AGStorage(StoreId, TRUE), AGStorage(StoreId, FALSE)}

\* the accessor the read-only calls go through; it has a dataChanged
\* callback, so a notification by a read would be seen
Reader == AGStorage(StoreId, TRUE)

\* the records passed to createRecord
CreateInputs ==
    { Obj(<< <<"name", Str("ab")>> >>),
      Obj(<< <<"id", Str("9")>>, <<"name", Str("b")>> >>) }

\* a record passed to updateRecord with id i
Update(i) == Obj(<< <<"id", Str(i)>>, <<"name", Str("b")>> >>)

\* the records passed to updateRecord
UpdateInputs == { Update("1"), Update("counter"), Update("undefined") }

\* the ids passed to deleteRecordById and getRecordById
IdInputs == {"1", "counter"}

\* the positions passed to getRecordByIndex and the start indexes passed
\* to find and findBy
IndexInputs == 0..MaxCreates

StartInputs == {Undefined, Num(1), Num(2)}

PropertyInputs == {"name"}

ValueInputs == {"a", "b"}

FnInputs ==
    { <<"fieldMatches", p, v>> : p \in PropertyInputs, v \in ValueInputs }
      \cup { <<"indexIs", 1>>, <<"missing">> }

\* the columnKeys passed to getDhtmlxGrid
ColumnInputs ==
    { Undefined, Arr(<<Str("name")>>),
      Arr(<<Str("id"), Str("x"), Str("name")>>) }

\* the calls made on a flat store and a tree store side by side
TreeUpdateInputs == { Update("1"), Update("tree") }

TreeIdInputs == {"1", "tree"}

(***************************************************************************)
(* The state.                                                              *)
(***************************************************************************)
VARIABLES
    storage,      \* the Storage object of the flat store
    treeStorage,  \* the Storage object of the tree store
    created,      \* the ids createRecord returned on the flat store, in order
    live,         \* the records createRecord returned and no later
                  \* updateRecord or deleteRecordById named
    last,         \* the last call on the flat store
    lastTree      \* the same call on the tree store, when both ran it

vars == <<storage, treeStorage, created, live, last, lastTree>>

Call(op, self, arg, r) ==
    [op |-> op, self |-> self, arg |-> arg, ret |-> r.ret, ev |-> r.m.ev,
     seen |-> r.m.seen, thrown |-> r.m.thrown]

Start(st) == Machine(st, NoLimit)

NoCall ==
    Call("new", Reader, <<>>, [m |-> Start(EmptyStorage), ret |-> Undefined])

Init ==
    /\ storage = EmptyStorage
    /\ treeStorage = AGTreeStorage(Start(EmptyStorage), StoreId, TRUE).m.st
    /\ created = <<>>
    /\ live = {}
    /\ last = NoCall
    /\ lastTree = NoCall

\* a call on the flat store
Run(op, self, arg, r) ==
    /\ storage' = r.m.st
    /\ last' = Call(op, self, arg, r)
    /\ UNCHANGED <<treeStorage, lastTree>>

CreateRecord ==
    \E self \in Accessors, record \in CreateInputs :
        /\ Len(created) < MaxCreates
        /\ LET r == createRecord(Start(storage), self, record)
           IN  /\ Run("createRecord", self, <<record>>, r)
               /\ created' = Append(created, Get(r.ret, "id")[2])
               /\ live' = live \cup {r.ret}

\* the records of live that a call naming id leaves in it
Others(id) == {c \in live : ToStr(Get(c, "id")) # ToStr(id)}

UpdateRecord ==
    \E self \in Accessors, record \in UpdateInputs :
        /\ Run("updateRecord", self, <<record>>,
               updateRecord(Start(storage), self, record))
        /\ live' = Others(Get(record, "id"))
        /\ UNCHANGED created

DeleteRecordById ==
    \E self \in Accessors, recordId \in IdInputs :
        /\ Run("deleteRecordById", self, <<Str(recordId)>>,
               deleteRecordById(Start(storage), self, Str(recordId)))
        /\ live' = Others(Str(recordId))
        /\ UNCHANGED created

GetAllRecordIds ==
    /\ Run("getAllRecordIds", Reader, <<>>,
           getAllRecordIds(Start(storage), Reader))
    /\ UNCHANGED <<created, live>>

GetRecordById ==
    \E recordId \in IdInputs :
        /\ Run("getRecordById", Reader, <<Str(recordId)>>,
               getRecordById(Start(storage), Reader, Str(recordId)))
        /\ UNCHANGED <<created, live>>

GetRecordByIndex ==
    \E recordIndex \in IndexInputs :
        /\ Run("getRecordByIndex", Reader, <<Num(recordIndex)>>,
               getRecordByIndex(Start(storage), Reader, recordIndex))
        /\ UNCHANGED <<created, live>>

GetAllRecords ==
    /\ Run("getAllRecords", Reader, <<>>,
           getAllRecords(Start(storage), Reader))
    /\ UNCHANGED <<created, live>>

Find ==
    \E property \in PropertyInputs, value \in ValueInputs,
       startIndex \in StartInputs :
        /\ Run("find", Reader, <<Str(property), Str(value), startIndex>>,
               find(Start(storage), Reader, property, value, startIndex))
        /\ UNCHANGED <<created, live>>

FindBy ==
    \E fn \in FnInputs, startIndex \in StartInputs :
        /\ Run("findBy", Reader, <<fn, startIndex>>,
               findBy(Start(storage), Reader, fn, startIndex))
        /\ UNCHANGED <<created, live>>

GetDhtmlxGrid ==
    \E columnKeys \in ColumnInputs :
        /\ Run("getDhtmlxGrid", Reader, <<columnKeys>>,
               getDhtmlxGrid(Start(storage), Reader, columnKeys))
        /\ UNCHANGED <<created, live>>

\* the store under its mutating calls and its two lookups
Next ==
    \/ CreateRecord
    \/ UpdateRecord
    \/ DeleteRecordById
    \/ GetRecordById
    \/ GetRecordByIndex

Spec == Init /\ [][Next]_vars

\* the store driven by createRecord and deleteRecordById alone, and
\* its whole-store reads
NextCD ==
    \/ CreateRecord
    \/ DeleteRecordById
    \/ GetAllRecordIds
    \/ GetAllRecords

SpecCD == Init /\ [][NextCD]_vars

\* the store under createRecord, deleteRecordById and its two searches
NextFind ==
    \/ CreateRecord
    \/ DeleteRecordById
    \/ Find
    \/ FindBy

SpecFind == Init /\ [][NextFind]_vars

\* the setItem calls the backend accepts before one throws
LeftInputs == 0..2

\* createRecord on a backend whose setItem throws after `left` more calls
FailCreateRecord ==
    \E record \in CreateInputs, left \in LeftInputs :
        LET self == AGStorage(StoreId, TRUE)
            counter == _getRecordCounterValue(Start(storage), self).ret
        IN  /\ Len(created) < MaxCreates
            /\ counter[1] = "number" /\ counter[2] < MaxCounter
            /\ Run("createRecord", self, <<record>>,
                   createRecord(Machine(storage, left), self, record))
            /\ UNCHANGED <<created, live>>

\* deleteRecordById on a backend whose setItem throws
FailDeleteRecordById ==
    \E recordId \in IdInputs :
        LET self == AGStorage(StoreId, TRUE)
        IN
        /\ Run("deleteRecordById", self, <<Str(recordId)>>,
               deleteRecordById(Machine(storage, 0), self, Str(recordId)))
        /\ live' = Others(Str(recordId))
        /\ UNCHANGED created

\* createRecord and deleteRecordById on a backend whose writes may fail
NextFail ==
    \/ CreateRecord
    \/ DeleteRecordById
    \/ FailCreateRecord
    \/ FailDeleteRecordById

SpecFail == Init /\ [][NextFail]_vars

\* createRecord through the accessor of the reads
ReaderCreateRecord ==
    \E record \in {Obj(<< <<"name", Str("ab")>> >>)} :
        /\ Len(created) < MaxCreates
        /\ LET r == createRecord(Start(storage), Reader, record)
           IN  /\ Run("createRecord", Reader, <<record>>, r)
               /\ created' = Append(created, Get(r.ret, "id")[2])
               /\ live' = live \cup {r.ret}

\* deleteRecordById through the accessor of the reads
ReaderDeleteRecordById ==
    \E recordId \in IdInputs :
        /\ Run("deleteRecordById", Reader, <<Str(recordId)>>,
               deleteRecordById(Start(storage), Reader, Str(recordId)))
        /\ live' = Others(Str(recordId))
        /\ UNCHANGED created

\* the positions at which a caller's callback returns true; at -1 it
\* never does
StopInputs == {0 - 1, 0, 1}

\* forEachRecord with a callback that leaves the store alone
ForEachRecord ==
    \E stop \in StopInputs, startIndex \in StartInputs :
        LET callback == <<"user", stop, <<"none">> >>
            loop == forEachRecord(Start(storage), Reader, callback, <<>>,
                                  startIndex)
        IN  /\ Run("forEachRecord", Reader, <<callback, startIndex>>,
                   [m |-> loop.m, ret |-> loop.acc])
            /\ UNCHANGED <<created, live>>

\* the store under createRecord, deleteRecordById and forEachRecord
NextEach ==
    \/ CreateRecord
    \/ DeleteRecordById
    \/ ForEachRecord

SpecEach == Init /\ [][NextEach]_vars

\* new AGStorage(storage, storeId, dataChanged) on the Storage object in use
New ==
    \E self \in Accessors :
        /\ Run("AGStorage", self, <<>>, [m |-> Start(storage), ret |-> Undefined])
        /\ UNCHANGED <<created, live>>

\* the store under createRecord, deleteRecordById, the constructor and
\* every read
NextRead ==
    \/ ReaderCreateRecord
    \/ ReaderDeleteRecordById
    \/ New
    \/ GetAllRecordIds
    \/ GetRecordById
    \/ GetRecordByIndex
    \/ ForEachRecord
    \/ GetAllRecords
    \/ Find
    \/ FindBy
    \/ GetDhtmlxGrid

SpecRead == Init /\ [][NextRead]_vars

\* a second storeId: the first one followed by "-" and a suffix
OtherStoreId == StoreId \o "-1"

\* the accessors of two stores on the one Storage object
TwoStores == {AGStorage(StoreId, TRUE), AGStorage(OtherStoreId, TRUE)}

TwoCreateRecord ==
    \E self \in TwoStores, record \in CreateInputs :
        /\ Len(created) < MaxCreates
        /\ LET r == createRecord(Start(storage), self, record)
           IN  /\ Run("createRecord", self, <<record>>, r)
               /\ created' = Append(created, Get(r.ret, "id")[2])
               /\ UNCHANGED live

TwoUpdateRecord ==
    \E self \in TwoStores, record \in {Update("1")} :
        /\ Run("updateRecord", self, <<record>>,
               updateRecord(Start(storage), self, record))
        /\ UNCHANGED <<created, live>>

TwoDeleteRecordById ==
    \E self \in TwoStores, recordId \in {"1"} :
        /\ Run("deleteRecordById", self, <<Str(recordId)>>,
               deleteRecordById(Start(storage), self, Str(recordId)))
        /\ UNCHANGED <<created, live>>

\* two stores with different storeIds on the same Storage object
NextTwo ==
    \/ TwoCreateRecord
    \/ TwoUpdateRecord
    \/ TwoDeleteRecordById

SpecTwo == Init /\ [][NextTwo]_vars

\* the calls a caller's callback makes on the store it iterates
EffectInputs ==
    { <<"deleteRecordById", Str("1")>>, <<"deleteRecordById", Str("2")>>,
      <<"createRecord", Obj(<< <<"name", Str("ab")>> >>)>>,
      <<"updateRecord", Update("1")>> }

\* the ids of the records the callback's createRecord calls returned
RECURSIVE Made(_)
Made(log) ==
    IF log = <<>> THEN <<>>
    ELSE (IF log[1].made[1] = "object" THEN <<Get(log[1].made, "id")[2]>>
          ELSE <<>>) \o Made(Tail(log))

\* forEachRecord with a callback that calls the store at every invocation
ForEachMutating ==
    \E stop \in {0 - 1, 1}, effect \in EffectInputs,
       startIndex \in {Undefined, Num(1)} :
        LET callback == <<"user", stop, effect>>
            loop == forEachRecord(Start(storage), Reader, callback, <<>>,
                                  startIndex)
            made == Made(loop.acc)
        IN  /\ effect[1] = "createRecord" =>
                  Len(created)
                    + Length(getAllRecordIds(Start(storage), Reader).ret)
                    <= MaxCreates + 1
            /\ Run("forEachRecord", Reader, <<callback, startIndex>>,
                   [m |-> loop.m, ret |-> loop.acc])
            /\ created' = created \o made
            /\ live' = IF loop.acc = <<>> THEN live
                       ELSE IF effect[1] = "createRecord"
                       THEN live \cup {loop.acc[k].made :
                                         k \in 1..Len(loop.acc)}
                       ELSE Others(IF effect[1] = "updateRecord"
                                   THEN Get(effect[2], "id") ELSE effect[2])

\* the store under createRecord, deleteRecordById and a forEachRecord
\* whose callback changes the store
NextMutate ==
    \/ ReaderCreateRecord
    \/ ReaderDeleteRecordById
    \/ ForEachMutating

SpecMutate == Init /\ [][NextMutate]_vars

\* the store under createRecord, deleteRecordById and the grid projection
NextGrid ==
    \/ CreateRecord
    \/ DeleteRecordById
    \/ GetDhtmlxGrid

SpecGrid == Init /\ [][NextGrid]_vars

(***************************************************************************)
(* A flat store and a tree store, each on its own Storage object, given    *)
(* the same calls.                                                         *)
(***************************************************************************)
TreeSelf == AGStorage(StoreId, TRUE)

Both(op, arg, r, t) ==
    /\ storage' = r.m.st
    /\ treeStorage' = t.m.st
    /\ last' = Call(op, TreeSelf, arg, r)
    /\ lastTree' = Call(op, TreeSelf, arg, t)
    /\ UNCHANGED live

BothCreateRecord ==
    \E record \in CreateInputs :
        /\ Len(created) < MaxCreates
        /\ LET r == createRecord(Start(storage), TreeSelf, record)
               t == createRecord(Start(treeStorage), TreeSelf, record)
           IN  /\ Both("createRecord", <<record>>, r, t)
               /\ created' = Append(created, Get(r.ret, "id")[2])

BothUpdateRecord ==
    \E record \in TreeUpdateInputs :
        /\ Both("updateRecord", <<record>>,
                updateRecord(Start(storage), TreeSelf, record),
                updateRecord(Start(treeStorage), TreeSelf, record))
        /\ UNCHANGED created

BothDeleteRecordById ==
    \E recordId \in TreeIdInputs :
        /\ Both("deleteRecordById", <<Str(recordId)>>,
                deleteRecordById(Start(storage), TreeSelf, Str(recordId)),
                deleteRecordById(Start(treeStorage), TreeSelf, Str(recordId)))
        /\ UNCHANGED created

BothGetRecordById ==
    \E recordId \in TreeIdInputs :
        /\ Both("getRecordById", <<Str(recordId)>>,
                getRecordById(Start(storage), TreeSelf, Str(recordId)),
                getRecordById(Start(treeStorage), TreeSelf, Str(recordId)))
        /\ UNCHANGED created

BothGetAllRecords ==
    /\ Both("getAllRecords", <<>>,
            getAllRecords(Start(storage), TreeSelf),
            getAllRecords(Start(treeStorage), TreeSelf))
    /\ UNCHANGED created

NextTree ==
    \/ BothCreateRecord
    \/ BothUpdateRecord
    \/ BothDeleteRecordById
    \/ BothGetRecordById
    \/ BothGetAllRecords

SpecTree == Init /\ [][NextTree]_vars

(***************************************************************************)
(* Readings of the state used by the properties.                           *)
(***************************************************************************)
\* the index of the Storage object st as getAllRecordIds returns it: a
\* sequence of JavaScript values
IndexIn(st) == getAllRecordIds(Start(st), Reader).ret[2]

\* the counter of st as _getRecordCounterValue reads it
CounterIn(st) == _getRecordCounterValue(Start(st), Reader).ret

\* what getRecordById returns on st for the id string i
RecordIn(st, i) == getRecordById(Start(st), Reader, Str(i)).ret

IndexNow == IndexIn(storage)

CounterNow == CounterIn(storage)

RecordNow(i) == RecordIn(storage, i)

\* the id string i read as a base-10 integer
IdNumber(i) == ParseInt(Str(i))

IsNumeral(i) == IdNumber(i)[1] = "number" /\ ToString(IdNumber(i)[2]) = i

Mutators == {"createRecord", "updateRecord", "deleteRecordById"}

\* the ids that name a key of the store in some reachable state
KnownIds ==
    IdInputs \cup {created[i] : i \in 1..Len(created)}
      \cup {IndexNow[i][2] : i \in 1..Len(IndexNow)}

(***************************************************************************)
(* C1.  The ids createRecord returns are decimal numerals, pairwise        *)
(* distinct and strictly increasing in call order, from any reachable      *)
(* state of the backend.                                                   *)
(***************************************************************************)
C1_IdsStrictlyIncreasing ==
    /\ \A i \in 1..Len(created) : IsNumeral(created[i])
    /\ \A i, j \in 1..Len(created) :
         i < j => IdNumber(created[i])[2] < IdNumber(created[j])[2]

(***************************************************************************)
(* C2.  After any sequence of createRecord, updateRecord and               *)
(* deleteRecordById the counter read from storeId + "-counter" is a number *)
(* at least as large as every id createRecord has returned.                *)
(***************************************************************************)
C2_CounterBoundsIds ==
    \A i \in 1..Len(created) :
        /\ CounterNow[1] = "number"
        /\ IsNumeral(created[i])
        /\ IdNumber(created[i])[2] <= CounterNow[2]

(***************************************************************************)
(* C3.  After deleteRecordById(id), getRecordById(id) returns false and id *)
(* does not occur in getAllRecordIds().                                    *)
(***************************************************************************)
C3_DeletedIsGone ==
    last.op = "deleteRecordById" =>
        /\ RecordNow(last.arg[1][2]) = False
        /\ \A i \in 1..Len(IndexNow) : IndexNow[i] # last.arg[1]

(***************************************************************************)
(* C4.  Between calls of createRecord and deleteRecordById, an id is in    *)
(* the index exactly when a record is stored under storeId + "-" + id.     *)
(***************************************************************************)
C4_IndexMatchesRecords ==
    \A i \in KnownIds :
        (\E k \in 1..Len(IndexNow) : IndexNow[k] = Str(i))
            <=> RecordNow(i)[1] = "object"

(***************************************************************************)
(* C5.  The record createRecord returns has the fields of its argument and *)
(* the new id, and getRecordById returns a record equal to it until an     *)
(* updateRecord or deleteRecordById names its id.                          *)
(***************************************************************************)
C5_CreatedIsRetrievable ==
    /\ last.op = "createRecord" =>
         /\ \A k \in 1..Len(last.arg[1][2]) :
              last.arg[1][2][k][1] # "id" =>
                  Get(last.ret, last.arg[1][2][k][1]) = last.arg[1][2][k][2]
         /\ Get(last.ret, "id") = Str(created[Len(created)])
         /\ RecordNow(created[Len(created)]) = last.ret
    /\ \A c \in live : RecordNow(Get(c, "id")[2]) = c

(***************************************************************************)
(* C6.  getRecordByIndex(p) returns what getRecordById returns for the id  *)
(* at position p of the index, and false when p is not a position of the   *)
(* index.                                                                  *)
(***************************************************************************)
C6_ByIndex ==
    last.op = "getRecordByIndex" =>
        LET p == last.arg[1][2]
        IN  IF p >= 0 /\ p < Len(IndexNow)
            THEN last.ret = RecordNow(IndexNow[p + 1][2])
            ELSE last.ret = False

(***************************************************************************)
(* C7.  A createRecord, updateRecord or deleteRecordById made through an   *)
(* accessor with a dataChanged callback invokes it exactly once, after     *)
(* the last backend write of the call: the callback finds the backend as   *)
(* the call leaves it.  Without a callback nothing is invoked.             *)
(***************************************************************************)
C7_NotifiedOnceAtEnd ==
    (last.op \in Mutators /\ ~last.thrown) =>
        IF last.self.dataChanged THEN last.seen = <<storage>>
        ELSE last.seen = <<>>

\* a createRecord with a callback, which wrote the counter, the record and
\* the index before the callback ran
C7_Witness ==
    /\ last.op = "createRecord"
    /\ last.self.dataChanged
    /\ last.seen = <<storage>>
    /\ Len(IndexNow) >= 2
    /\ Cardinality({k \in 1..Len(last.ev) : last.ev[k][1] = "setItem"}) = 3

(***************************************************************************)
(* C8.  find and findBy return the smallest position at or after           *)
(* startIndex whose record passes the test, -1 when there is none; find    *)
(* and findBy with a function that applies find's test agree.              *)
(***************************************************************************)
\* the positions at or after start whose record passes Test
Matching(start, Test(_, _)) ==
    {p \in start..(Len(IndexNow) - 1) : Test(RecordNow(IndexNow[p + 1][2]), p)}

First(ps) == IF ps = {} THEN 0 - 1 ELSE CHOOSE p \in ps : \A q \in ps : p <= q

StartOf(startIndex) == IF startIndex[1] = "undefined" THEN 0 ELSE startIndex[2]

MarkerKey == StoreId \o "-tree"

C9_TreeBehavesAsFlat ==
    /\ last.ret = lastTree.ret
    /\ DOMAIN treeStorage = DOMAIN storage \cup {MarkerKey}
    /\ MarkerKey \notin DOMAIN storage
    /\ treeStorage[MarkerKey] = JSONstringify(True)
    /\ \A k \in DOMAIN storage : treeStorage[k] = storage[k]
    /\ \A k \in 1..Len(last.ev) : last.ev[k][2] # MarkerKey

(***************************************************************************)
(* C10.  After any sequence of createRecord and deleteRecordById,          *)
(* getAllRecords() is as long as getAllRecordIds().                        *)
(***************************************************************************)
C10_SameLength ==
    last.op = "getAllRecords" => Len(last.ret[2]) = Len(IndexNow)

\* getAllRecords returned two entries, one of them for an id of the index
\* whose record is gone
C10_Witness ==
    /\ last.op = "getAllRecords"
    /\ Len(last.ret[2]) = 2
    /\ \E k \in 1..2 : last.ret[2][k] = False
    /\ \E k \in 1..2 : last.ret[2][k] # False

Writes(ev) == SelectSeq(ev, LAMBDA e : e[1] # "getItem")

\* the Storage objects a and b hold the same strings except under the keys ks
SameExcept(a, b, ks) ==
    /\ DOMAIN a \ ks = DOMAIN b \ ks
    /\ \A k \in DOMAIN a \ ks : a[k] = b[k]

(***************************************************************************)
(* C12.  updateRecord(record) writes the one key storeId + "-" + record.id *)
(* and leaves the index and the counter as they were; when nothing was     *)
(* stored under that key, getRecordById(record.id) then returns the record *)
(* while record.id is not in getAllRecordIds().                            *)
(***************************************************************************)
C12_UpdateWritesOneKey ==
    [][last'.op = "updateRecord" =>
         LET record == last'.arg[1]
             id == Get(record, "id")
             key == StoreId \o "-" \o id[2]
         IN  /\ Writes(last'.ev) = << <<"setItem", key>> >>
             /\ SameExcept(storage, storage', {key})
             /\ IndexIn(storage') = IndexNow
             /\ CounterIn(storage') = CounterNow
             /\ key \notin DOMAIN storage =>
                  /\ RecordIn(storage', id[2]) = record
                  /\ \A k \in 1..Len(IndexNow) : IndexNow[k] # id]_vars

(***************************************************************************)
(* C13.  A createRecord or deleteRecordById whose backend write throws     *)
(* does not invoke dataChanged and undoes nothing.  createRecord writes    *)
(* the counter, then the record, then the index: when the index write      *)
(* throws, the record is stored and its id is not in the index.            *)
(* deleteRecordById removes the record key, then writes the index: when    *)
(* the index write throws, the id is in the index and has no record.       *)
(***************************************************************************)
CounterKey == StoreId \o "-counter"

RecordKey(i) == StoreId \o "-" \o i

C13_NoRollback ==
    [][last'.thrown =>
         LET id == ToStr(Plus1(CounterNow))
             done == Len(Writes(last'.ev)) - 1
             record == Set(last'.arg[1], "id", Str(id))
             deleted == last'.arg[1][2]
         IN  /\ last'.seen = <<>>
             /\ last'.op = "createRecord" =>
                  /\ Writes(last'.ev) =
                       SubSeq(<< <<"setItem", CounterKey>>,
                                 <<"setItem", RecordKey(id)>>,
                                 <<"setItem", StoreId>> >>, 1, done + 1)
                  /\ done = 0 => storage' = storage
                  /\ done >= 1 =>
                       /\ CounterIn(storage') = Plus1(CounterNow)
                       /\ IndexIn(storage') = IndexNow
                  /\ done = 1 => SameExcept(storage, storage', {CounterKey})
                  /\ done = 2 =>
                       /\ SameExcept(storage, storage',
                                     {CounterKey, RecordKey(id)})
                       /\ RecordIn(storage', id) = record
                       /\ \A k \in 1..Len(IndexNow) : IndexNow[k] # Str(id)
             /\ last'.op = "deleteRecordById" =>
                  /\ Writes(last'.ev) = << <<"removeItem", RecordKey(deleted)>>,
                                           <<"setItem", StoreId>> >>
                  /\ SameExcept(storage, storage', {RecordKey(deleted)})
                  /\ RecordKey(deleted) \notin DOMAIN storage'
                  /\ \E k \in 1..Len(IndexNow) : IndexNow[k] = Str(deleted)]_vars

(***************************************************************************)
(* C14.  createRecord appends the new id at the end of the index;          *)
(* deleteRecordById(id) removes only the first occurrence of id and leaves *)
(* the other entries in their order; so the index lists, in the order of   *)
(* their creation, the ids of the records created and not deleted since.   *)
(***************************************************************************)
\* the sequence a is the sequence b with some of its entries left out
RECURSIVE IsSubsequence(_, _)
IsSubsequence(a, b) ==
    IF a = <<>> THEN TRUE
    ELSE IF b = <<>> THEN FALSE
    ELSE IF a[1] = b[1] THEN IsSubsequence(Tail(a), Tail(b))
    ELSE IsSubsequence(a, Tail(b))

C14_CreationOrder ==
    [][LET index == IndexIn(storage')
       IN  /\ last'.op = "createRecord" =>
                index = Append(IndexNow, Get(last'.ret, "id"))
           /\ last'.op = "deleteRecordById" =>
                LET at == IndexOf(IndexNow, last'.arg[1])
                IN  index = IF at = 0 THEN IndexNow
                            ELSE Splice1(IndexNow, at)
           /\ \A k \in 1..Len(index) :
                \E c \in live' : Get(c, "id") = index[k]
           /\ \A c \in live' :
                \E k \in 1..Len(index) : index[k] = Get(c, "id")
           /\ IsSubsequence([k \in 1..Len(index) |-> index[k][2]],
                            created')]_vars

(***************************************************************************)
(* C15.  deleteRecordById(id) with an id that is not in the index throws   *)
(* nothing and does not write the index key: index and counter stay as     *)
(* they were.  It still removes the key storeId + "-" + id and still       *)
(* invokes dataChanged.                                                    *)
(***************************************************************************)
C15_DeleteAbsentId ==
    [][/\ last'.op = "deleteRecordById"
       /\ \A k \in 1..Len(IndexNow) : IndexNow[k] # last'.arg[1]
       => /\ ~last'.thrown
          /\ Writes(last'.ev) = << <<"removeItem", RecordKey(last'.arg[1][2])>> >>
          /\ IndexIn(storage') = IndexNow
          /\ CounterIn(storage') = CounterNow
          /\ last'.self.dataChanged => last'.seen = <<storage'>>]_vars

(***************************************************************************)
(* C16.  forEachRecord(callback, startIndex) invokes callback at the       *)
(* positions startIndex, startIndex + 1, ... in that order, with the       *)
(* record stored for the id at the position and with the position; it      *)
(* stops after the first invocation that returns a truthy value,           *)
(* otherwise goes on to the end of the index, and invokes nothing when     *)
(* startIndex is at or past the end.                                       *)
(***************************************************************************)
\* the first position forEachRecord visits
StartAt(startIndex) == IF startIndex[1] = "undefined" THEN 0 ELSE startIndex[2]

\* the last position it visits when callback returns true at stop only
EndAt(start, stop, length) ==
    IF start <= stop /\ stop < length THEN stop ELSE length - 1

C16_VisitsInOrder ==
    last.op = "forEachRecord" /\ last.arg[1][3][1] = "none" =>
        LET start == StartAt(last.arg[2])
            end == EndAt(start, last.arg[1][2], Len(IndexNow))
        IN  /\ Len(last.ret) = IF end < start THEN 0 ELSE end - start + 1
            /\ \A k \in 1..Len(last.ret) :
                 /\ last.ret[k].recordIndex = start + k - 1
                 /\ last.ret[k].record = RecordNow(IndexNow[start + k][2])

\* the callback returned true at position 1 of three, after position 0
C16_Witness ==
    /\ last.op = "forEachRecord"
    /\ last.arg[1][3][1] = "none"
    /\ last.arg[2] = Undefined
    /\ last.arg[1][2] = 1
    /\ Len(IndexNow) = 3
    /\ Len(last.ret) = 2
    /\ last.ret[2].record # False

(***************************************************************************)
(* C17.  The constructor of the flat store and the calls getAllRecordIds,  *)
(* getRecordById, getRecordByIndex, forEachRecord with a callback that     *)
(* leaves the store alone, getAllRecords, find, findBy and getDhtmlxGrid   *)
(* leave every key of the Storage object as it was: they call neither      *)
(* setItem nor removeItem, and dataChanged is not invoked.                 *)
(***************************************************************************)
Readers ==
    {"AGStorage", "getAllRecordIds", "getRecordById", "getRecordByIndex",
     "forEachRecord", "getAllRecords", "find", "findBy", "getDhtmlxGrid"}

C17_ReadsWriteNothing ==
    [][/\ last'.op \in Readers
       /\ last'.op = "forEachRecord" => last'.arg[1][3][1] = "none"
       => /\ storage' = storage
          /\ Writes(last'.ev) = <<>>
          /\ last'.seen = <<>>
          /\ ~last'.thrown]_vars

\* a grid was projected from two records through an accessor that has a
\* dataChanged callback
C17_Witness ==
    /\ last.op = "getDhtmlxGrid"
    /\ last.self.dataChanged
    /\ Len(IndexNow) = 2
    /\ Len(last.ev) > 2
    /\ last.seen = <<>>

(***************************************************************************)
(* C18.  Whatever setItem of a createRecord throws, the ids of the         *)
(* createRecord calls that return are pairwise distinct, and a             *)
(* createRecord that gets as far as writing its record assigns an id that  *)
(* no earlier call returned, that is not in the index and that has no      *)
(* record key.                                                             *)
(***************************************************************************)
C18_IdsNeverReused ==
    [][last'.op = "createRecord" /\ Len(Writes(last'.ev)) = 3 =>
         LET id == ToStr(Plus1(CounterNow))
         IN  /\ Writes(last'.ev)[2] = <<"setItem", RecordKey(id)>>
             /\ \A k \in 1..Len(created) : created[k] # id
             /\ \A k \in 1..Len(IndexNow) : IndexNow[k] # Str(id)
             /\ RecordKey(id) \notin DOMAIN storage]_vars

(***************************************************************************)
(* C19.  Two stores with different storeIds on the same Storage object do  *)
(* not touch each other: a createRecord, updateRecord or deleteRecordById  *)
(* on one leaves the index, the counter and every record of the other as   *)
(* they were, also when one storeId is the other followed by "-" and a     *)
(* suffix.                                                                 *)
(***************************************************************************)
\* what the store of accessor self reads on the Storage object st: its
\* index, its counter and its records under the ids of the inputs
View(st, self) ==
    [index |-> getAllRecordIds(Start(st), self).ret,
     counter |-> _getRecordCounterValue(Start(st), self).ret,
     records |-> [i \in IdInputs \cup {"2", "3"} |->
                    getRecordById(Start(st), self, Str(i)).ret]]

C19_StoresIsolated ==
    [][last'.op \in Mutators =>
         \A other \in TwoStores :
            other.id # last'.self.id =>
               View(storage', other) = View(storage, other)]_vars

(***************************************************************************)
(* C20.  forEachRecord ends also when its callback calls createRecord,     *)
(* updateRecord or deleteRecordById on the store: it walks the index as    *)
(* read once at the start, so with L the length of the index at the call   *)
(* it invokes the callback at most max(0, L - startIndex) times, at the    *)
(* positions startIndex, startIndex + 1, ..., and a position whose record  *)
(* the callback deleted earlier in the walk is delivered as false.         *)
(***************************************************************************)
C20_WalksSnapshot ==
    [][last'.op = "forEachRecord" =>
         LET start == StartAt(last'.arg[2])
             effect == last'.arg[1][3]
             log == last'.ret
         IN  /\ ~last'.thrown
             /\ Len(log) <= IF Len(IndexNow) > start
                            THEN Len(IndexNow) - start ELSE 0
             /\ last'.arg[1][2] = 0 - 1 =>
                  Len(log) = IF Len(IndexNow) > start
                             THEN Len(IndexNow) - start ELSE 0
             /\ \A k \in 1..Len(log) : log[k].recordIndex = start + k - 1
             /\ effect[1] = "deleteRecordById" =>
                  \A k \in 2..Len(log) :
                     IndexNow[start + k] = effect[2] =>
                        log[k].record = False]_vars

\* the callback deleted record "2" at position 0 and was handed false at
\* position 1, where the index read at the start says "2"
C20_Witness ==
    /\ last.op = "forEachRecord"
    /\ last.arg[1][3] = <<"deleteRecordById", Str("2")>>
    /\ last.arg[2] = Undefined
    /\ Len(last.ret) >= 2
    /\ last.ret[1].record # False
    /\ last.ret[2].record = False
    /\ Len(IndexNow) < Len(last.ret)
====
